---- MODULE Spec2Model ----
(***************************************************************************)
(* A model of the retrieval pipeline of ResumeATS/backend/rag_engine.py:   *)
(* the Section Detector and the Chunker (pure functions on text), the      *)
(* RAGEngine's in-memory state (chunks, faiss_index, index_to_chunk_map),  *)
(* its persistence on disk (one .faiss and one _metadata.pkl file per      *)
(* index name) and its public operations.                                  *)
(*                                                                         *)
(* Text is a TLA+ string; Python's str methods are defined below on        *)
(* strings with Len, SubSeq, Head, Tail and \o.                            *)
(***************************************************************************)
EXTENDS Integers, Sequences, FiniteSets, TLC

VARIABLES chunks, faiss_index, index_to_chunk_map, disk, clock, last, fn, runs

vars == <<chunks, faiss_index, index_to_chunk_map, disk, clock, last, fn, runs>>

(***************************************************************************)
(* Bounds of the model.                                                    *)
(***************************************************************************)
\* longest text enumerated character by character for the pure functions
MaxTextLen == 4
\* most paragraphs (lines) joined into an enumerated text
MaxParas == 3
\* largest small chunk_size tried by the Chunker harness (besides 20 and 500)
MaxChunkSize == 4

(***************************************************************************)
(* Python str operations.                                                  *)
(***************************************************************************)
CharAt(s, i) == SubSeq(s, i, i)

\* str.isspace() for one character (the ASCII whitespace str.strip() removes)
IsSpace(c) == c \in {" ", "\n", "\t", "\r"}

RECURSIVE LStrip(_)
LStrip(s) ==
    IF s = "" THEN ""
    ELSE IF IsSpace(Head(s)) THEN LStrip(Tail(s)) ELSE s

RECURSIVE RStrip(_)
RStrip(s) ==
    IF s = "" THEN ""
    ELSE IF IsSpace(CharAt(s, Len(s))) THEN RStrip(SubSeq(s, 1, Len(s) - 1)) ELSE s

\* str.strip()
Strip(s) == RStrip(LStrip(s))

\* the least element of a set of positive integers, 0 when it is empty
First(hits) == IF hits = {} THEN 0 ELSE CHOOSE i \in hits : \A j \in hits : i <= j

\* str.find(sub) + 1: the first position where sub occurs in s, 0 when none
Find(s, sub) ==
    First({i \in 1..(Len(s) - Len(sub) + 1) : SubSeq(s, i, i + Len(sub) - 1) = sub})

\* sub in s
Contains(s, sub) == Find(s, sub) # 0

\* str.split(sep): left to right, non-overlapping, always at least one piece
RECURSIVE Split(_, _)
Split(s, sep) ==
    IF Find(s, sep) = 0 THEN <<s>>
    ELSE <<SubSeq(s, 1, Find(s, sep) - 1)>>
         \o Split(SubSeq(s, Find(s, sep) + Len(sep), Len(s)), sep)

\* len(s.split()): the number of maximal runs of non-whitespace characters
TokenCount(s) ==
    Cardinality({i \in 1..Len(s) :
        /\ ~IsSpace(CharAt(s, i))
        /\ (i = 1 \/ IsSpace(CharAt(s, i - 1)))})

UpperLetters == "ABCDEFGHIJKLMNOPQRSTUVWXYZ"
LowerLetters == "abcdefghijklmnopqrstuvwxyz"

LowerChar(c) ==
    IF Find(UpperLetters, c) = 0 THEN c ELSE CharAt(LowerLetters, Find(UpperLetters, c))

\* str.lower()
RECURSIVE Lower(_)
Lower(s) == IF s = "" THEN "" ELSE LowerChar(Head(s)) \o Lower(Tail(s))

\* sep.join(parts)
RECURSIVE Join(_, _)
Join(parts, sep) ==
    IF Len(parts) = 0 THEN ""
    ELSE IF Len(parts) = 1 THEN parts[1]
    ELSE parts[1] \o sep \o Join(Tail(parts), sep)

(***************************************************************************)
(* Chunk and the Chunker (chunk_text).                                     *)
(***************************************************************************)
\* embedding = None
NoEmbedding == <<>>

Chunk(text, source, section) ==
    [text |-> text, source |-> source, section |-> section, embedding |-> NoEmbedding]

\* CloseBuffer without the "if current_chunk.strip()" test
CloseBufferUnchecked(current_chunk, source, section) ==
    <<Chunk(Strip(current_chunk), source, section)>>

\* the chunk appended when a buffer is closed: nothing when it strips to ""
CloseBuffer(current_chunk, source, section) ==
    IF Strip(current_chunk) # ""
    THEN <<Chunk(Strip(current_chunk), source, section)>>
    ELSE <<>>

\* the for loop of chunk_text with "<=" in place of "<"
RECURSIVE ChunkLoopInclusive(_, _, _, _, _, _, _)
ChunkLoopInclusive(paragraphs, i, current_chunk, out, source, section, chunk_size) ==
    IF i > Len(paragraphs)
    THEN out \o CloseBuffer(current_chunk, source, section)
    ELSE LET para == paragraphs[i]
         IN IF Len(current_chunk) + Len(para) <= chunk_size
            THEN ChunkLoopInclusive(paragraphs, i + 1, current_chunk \o para \o "\n\n",
                                    out, source, section, chunk_size)
            ELSE ChunkLoopInclusive(paragraphs, i + 1, para \o "\n\n",
                                    out \o CloseBuffer(current_chunk, source, section),
                                    source, section, chunk_size)

\* the for loop of chunk_text from paragraph i on
RECURSIVE ChunkLoop(_, _, _, _, _, _, _)
ChunkLoop(paragraphs, i, current_chunk, out, source, section, chunk_size) ==
    IF i > Len(paragraphs)
    THEN out \o CloseBuffer(current_chunk, source, section)
    ELSE LET para == paragraphs[i]
         IN IF Len(current_chunk) + Len(para) < chunk_size
            THEN ChunkLoop(paragraphs, i + 1, current_chunk \o para \o "\n\n", out,
                           source, section, chunk_size)
            ELSE ChunkLoop(paragraphs, i + 1, para \o "\n\n",
                           out \o CloseBuffer(current_chunk, source, section),
                           source, section, chunk_size)

\* the for loop of chunk_text from paragraph i on, keeping for every buffer it
\* closes the paragraphs the buffer held (group) instead of the chunk
RECURSIVE ChunkGroups(_, _, _, _, _)
ChunkGroups(paragraphs, i, current_chunk, group, chunk_size) ==
    IF i > Len(paragraphs) THEN <<group>>
    ELSE IF Len(current_chunk) + Len(paragraphs[i]) < chunk_size
    THEN ChunkGroups(paragraphs, i + 1, current_chunk \o paragraphs[i] \o "\n\n",
                     Append(group, paragraphs[i]), chunk_size)
    ELSE <<group>> \o ChunkGroups(paragraphs, i + 1, paragraphs[i] \o "\n\n",
                                  <<paragraphs[i]>>, chunk_size)

\* chunk_text whose else branch restarts the buffer empty, losing the paragraph
RECURSIVE ChunkLoopDropsPara(_, _, _, _, _, _, _)
ChunkLoopDropsPara(paragraphs, i, current_chunk, out, source, section, chunk_size) ==
    IF i > Len(paragraphs)
    THEN out \o CloseBuffer(current_chunk, source, section)
    ELSE LET para == paragraphs[i]
         IN IF Len(current_chunk) + Len(para) < chunk_size
            THEN ChunkLoopDropsPara(paragraphs, i + 1, current_chunk \o para \o "\n\n",
                                    out, source, section, chunk_size)
            ELSE ChunkLoopDropsPara(paragraphs, i + 1, "",
                                    out \o CloseBuffer(current_chunk, source, section),
                                    source, section, chunk_size)

chunk_text_drops_para(text, source, section, chunk_size) ==
    ChunkLoopDropsPara(Split(text, "\n\n"), 1, "", <<>>, source, section, chunk_size)

chunk_text(text, source, section, chunk_size) ==
    ChunkLoop(Split(text, "\n\n"), 1, "", <<>>, source, section, chunk_size)

DefaultChunkSize == 500

(***************************************************************************)
(* The Section Detector (_detect_sections).                                *)
(***************************************************************************)
\* section_keywords, in the dict's insertion order
section_keywords == <<
    [name |-> "summary", keywords |-> <<"summary", "objective", "profile", "about">>],
    [name |-> "experience",
     keywords |-> <<"experience", "work history", "employment", "professional experience">>],
    [name |-> "education", keywords |-> <<"education", "academic", "degree">>],
    [name |-> "skills",
     keywords |-> <<"skills", "technical skills", "competencies", "expertise">>],
    [name |-> "projects", keywords |-> <<"projects", "portfolio">>],
    [name |-> "certifications",
     keywords |-> <<"certifications", "certificates", "licenses">>] >>

\* MatchesSection without the "len(line.split()) < 5" test
MatchesSectionAnyLength(line, k) ==
    \E j \in 1..Len(section_keywords[k].keywords) :
        Contains(Strip(Lower(line)), section_keywords[k].keywords[j])

\* the condition of the inner if for one entry of section_keywords
MatchesSection(line, k) ==
    /\ \E j \in 1..Len(section_keywords[k].keywords) :
           Contains(Strip(Lower(line)), section_keywords[k].keywords[j])
    /\ TokenCount(line) < 5

\* the index of the first entry of section_keywords the line matches, 0 when none
HeaderIndex(line) == First({k \in 1..Len(section_keywords) : MatchesSection(line, k)})

\* sections[key] = value on a dict kept as a sequence of (name, text) in insertion order
DictSet(sections, key, value) ==
    IF \E i \in 1..Len(sections) : sections[i].name = key
    THEN [i \in 1..Len(sections) |->
             IF sections[i].name = key THEN [name |-> key, text |-> value] ELSE sections[i]]
    ELSE Append(sections, [name |-> key, text |-> value])

\* "if current_text: sections[current_section] = '\n'.join(current_text)"
FlushSection(sections, current_section, current_text) ==
    IF Len(current_text) > 0
    THEN DictSet(sections, current_section, Join(current_text, "\n"))
    ELSE sections

\* the state [sections, current_section, current_text] after the body of the for
\* loop of _detect_sections ran on a line that matches entry k (0: none)
SectionStep(st, line, k) ==
    IF k # 0
    THEN [sections |-> FlushSection(st.sections, st.current_section, st.current_text),
          current_section |-> section_keywords[k].name,
          current_text |-> <<>>]
    ELSE IF Strip(line) # ""
    THEN [st EXCEPT !.current_text = Append(st.current_text, line)]
    ELSE st

\* the for loop of _detect_sections from line i on, and the flush after it
RECURSIVE SectionLoop(_, _, _)
SectionLoop(lines, i, st) ==
    IF i > Len(lines)
    THEN FlushSection(st.sections, st.current_section, st.current_text)
    ELSE SectionLoop(lines, i + 1, SectionStep(st, lines[i], HeaderIndex(lines[i])))

detect_sections(text) ==
    SectionLoop(Split(text, "\n"), 1,
                [sections |-> <<>>, current_section |-> "summary", current_text |-> <<>>])

\* Python's None where a string may stand
PyNone == "<None>"

\* the index name the operations are called with: the one __init__ loads
Names == {"default"}

\* faiss_index = None
NoIndex == [present |-> FALSE, vectors |-> <<>>]

\* a path at which no file exists
NoFile == [exists |-> FALSE]

(***************************************************************************)
(* Vectors.  An embedding is a pair of integers; the similarity of the     *)
(* brute-force strategy and the distance of the FAISS strategy are         *)
(* compared exactly.                                                       *)
(***************************************************************************)
Dot(a, b) == a[1] * b[1] + a[2] * b[2]

Norm2(a) == Dot(a, a)

\* cosine_similarity(q, a) > cosine_similarity(q, b), for non-zero vectors:
\* Dot(q,a)/|a| > Dot(q,b)/|b|, compared by sign and square
CosGreater(q, a, b) ==
    LET x == Dot(q, a)
        y == Dot(q, b)
    IN IF x >= 0 /\ y < 0 THEN TRUE
       ELSE IF x < 0 /\ y >= 0 THEN FALSE
       ELSE IF x >= 0 THEN x * x * Norm2(b) > y * y * Norm2(a)
       ELSE x * x * Norm2(b) < y * y * Norm2(a)

\* the squared Euclidean distance IndexFlatL2 ranks by
L2Dist(q, a) == (q[1] - a[1]) * (q[1] - a[1]) + (q[2] - a[2]) * (q[2] - a[2])

\* the Embedding Provider's answer for a text (an external service: modelled as a
\* fixed function of the text that gives distinct texts equal or different vectors)
EmbedVector(text) == <<(Len(text) % 3) + 1, TokenCount(text) % 3>>

(***************************************************************************)
(* The ATS rules (_load_ats_rules).                                        *)
(***************************************************************************)
ats_rules == <<
    [category |-> "Keyword Optimization",
     rules |-> <<"Resume should contain 70%+ of job description keywords",
                 "Keywords should appear in context, not just listed",
                 "Use exact keyword matches from job description",
                 "Include industry-specific terminology">>,
     weight |-> 30],
    [category |-> "Formatting",
     rules |-> <<"Use standard section headers (Experience, Education, Skills)",
                 "Avoid tables, text boxes, headers/footers",
                 "Use simple bullet points",
                 "Consistent date formatting",
                 "No images or graphics">>,
     weight |-> 20],
    [category |-> "Content Quality",
     rules |-> <<"Quantify achievements with metrics",
                 "Use action verbs to start bullet points",
                 "Show impact and results",
                 "Relevant experience highlighted",
                 "No spelling or grammar errors">>,
     weight |-> 25],
    [category |-> "Experience Relevance",
     rules |-> <<"Recent experience matches job requirements",
                 "Progressive career growth shown",
                 "Relevant projects and achievements",
                 "Industry experience alignment">>,
     weight |-> 15],
    [category |-> "Skills Match",
     rules |-> <<"Technical skills match job requirements",
                 "Certifications relevant to role",
                 "Tools and technologies listed",
                 "Soft skills demonstrated through achievements">>,
     weight |-> 10] >>

\* the chunk lists index_ats_rules builds, one per rule category, embeddings unset
RuleChunkLists ==
    [i \in 1..Len(ats_rules) |->
        chunk_text(ats_rules[i].category \o ": " \o Join(ats_rules[i].rules, " "),
                   "ats_rules", ats_rules[i].category, DefaultChunkSize)]

(***************************************************************************)
(* The engine.  An operation works on a record s holding the engine's      *)
(* fields (chunks, faiss_index, index_to_chunk_map), the index directory   *)
(* (disk), the count of saves so far (clock, which stands for              *)
(* datetime.now()), the number of get_embedding calls the provider still   *)
(* answers (budget, -1: all of them), whether an exception is propagating  *)
(* (raised) and whether _save_index caught one (caught).  Positions and    *)
(* FAISS identifiers count from 0 as in the code; chunks[p + 1] is the     *)
(* chunk at position p.                                                    *)
(***************************************************************************)
NoFail == -1

ScenarioSectionText == "Skills\nPython, Go\n\nExperience\nBuilt a cache."

\* the resume texts and the job description texts the operations are called with
Resumes == {"", "Built a cache.", ScenarioSectionText}

JobTexts == {"", " ", "Need Go."}

\* per resume text, the chunk lists of its sections in order: _detect_sections,
\* then chunk_text on each section
ChunkSections(sections) ==
    [i \in 1..Len(sections) |->
        chunk_text(sections[i].text, "resume", sections[i].name, DefaultChunkSize)]

SectionChunkLists(resume_text) == ChunkSections(detect_sections(resume_text))

\* the functions of the texts above, evaluated once
ResumeTable == [t \in Resumes |-> SectionChunkLists(t)]

JobTable ==
    [t \in JobTexts |-> chunk_text(t, "job_description", "requirements", DefaultChunkSize)]

Flatten(lists) ==
    LET F[i \in 0..Len(lists)] == IF i = 0 THEN <<>> ELSE F[i - 1] \o lists[i]
    IN F[Len(lists)]

KnownTexts ==
    {c.text : c \in UNION {{l[i] : i \in 1..Len(l)} :
        l \in {Flatten(ResumeTable[t]) : t \in Resumes}
               \cup {JobTable[t] : t \in JobTexts}
               \cup {Flatten(RuleChunkLists)}}}
      \cup {"resume content", "job requirements", "ATS scoring rules"}

EmbedTable == [t \in KnownTexts |-> EmbedVector(t)]

\* get_embedding(text) when the provider answers
get_embedding(text) == EmbedTable[text]

Spend(budget, n) == IF budget = NoFail THEN NoFail ELSE budget - n

CanEmbed(budget, n) == budget = NoFail \/ budget >= n

WithEmbedding(c) == [c EXCEPT !.embedding = get_embedding(c.text)]

\* the first n chunks of cs with their embeddings set
Embedded(cs, n) == [i \in 1..n |-> WithEmbedding(cs[i])]

\* a clear_index that clears nothing
clear_index_noop(s) == s

\* clear_index
clear_index(s) ==
    [s EXCEPT !.chunks = <<>>, !.faiss_index = NoIndex, !.index_to_chunk_map = <<>>]

\* an indexing step that, when the provider fails, inserts the chunks without
\* embeddings and goes on
ExtendUnembedded(s, cs) ==
    IF s.raised THEN s
    ELSE IF CanEmbed(s.budget, Len(cs))
    THEN [s EXCEPT !.chunks = s.chunks \o Embedded(cs, Len(cs)),
                   !.budget = Spend(s.budget, Len(cs))]
    ELSE [s EXCEPT !.chunks = s.chunks \o cs, !.budget = 0]

\* embed_chunks followed by self.chunks.extend: all of cs or, when the provider
\* fails on one of them, none
EmbedAndExtend(s, cs) ==
    IF s.raised THEN s
    ELSE IF CanEmbed(s.budget, Len(cs))
    THEN [s EXCEPT !.chunks = s.chunks \o Embedded(cs, Len(cs)),
                   !.budget = Spend(s.budget, Len(cs))]
    ELSE [s EXCEPT !.budget = 0, !.raised = TRUE]

\* a loop "chunks = chunk_text(...); chunks = embed_chunks(chunks); extend" over
\* the chunk lists, from list i on
RECURSIVE IndexLists(_, _, _)
IndexLists(s, lists, i) ==
    IF i > Len(lists) \/ s.raised THEN s
    ELSE IndexLists(EmbedAndExtend(s, lists[i]), lists, i + 1)

index_resume(s, resume_text) == IndexLists(s, ResumeTable[resume_text], 1)

index_job_description(s, jd_text) == EmbedAndExtend(s, JobTable[jd_text])

index_ats_rules(s) == IndexLists(s, RuleChunkLists, 1)

\* _initialize_faiss_index
NewIndex == [present |-> TRUE, vectors |-> <<>>]

\* _add_to_faiss_index: the vectors are appended to the store and identifier
\* start_idx + i is mapped to chunk_indices[i]
add_to_faiss_index(s, embeddings, chunk_indices) ==
    LET index == IF s.faiss_index.present THEN s.faiss_index ELSE NewIndex
        start_idx == Len(index.vectors)
        old == s.index_to_chunk_map
        new == {start_idx + i - 1 : i \in 1..Len(chunk_indices)}
    IN [s EXCEPT !.faiss_index = [index EXCEPT !.vectors = index.vectors \o embeddings],
                 !.index_to_chunk_map =
                     [id \in DOMAIN old \cup new |->
                         IF id \in new THEN chunk_indices[id - start_idx + 1] ELSE old[id]]]

\* "chunk.embedding = get_embedding(...); self.chunks.append(chunk)" for each chunk
\* of cs: the chunks before the one the provider fails on stay appended
EmbedAndAppendEach(s, cs) ==
    IF s.raised THEN s
    ELSE [s EXCEPT !.chunks = s.chunks \o Embedded(cs, IF CanEmbed(s.budget, Len(cs))
                                                       THEN Len(cs) ELSE s.budget),
                   !.budget = IF CanEmbed(s.budget, Len(cs))
                              THEN Spend(s.budget, Len(cs)) ELSE 0,
                   !.raised = ~CanEmbed(s.budget, Len(cs))]

\* the loop of index_resume_with_faiss over the sections' chunk lists, from list i on
RECURSIVE FaissLists(_, _, _)
FaissLists(s, lists, i) ==
    IF i > Len(lists) \/ s.raised THEN s
    ELSE FaissLists(EmbedAndAppendEach(s, lists[i]), lists, i + 1)

\* "if all_embeddings: self._add_to_faiss_index(...)" for the chunks appended to
\* before.chunks by an indexing loop that ended in state s
AddAppended(before, s) ==
    LET first == Len(before.chunks)
        n == Len(s.chunks) - first
    IN IF s.raised \/ n = 0 THEN s
       ELSE add_to_faiss_index(s, [i \in 1..n |-> s.chunks[first + i].embedding],
                               [i \in 1..n |-> first + i - 1])

(***************************************************************************)
(* Persistence.  disk[name].faiss is the file <name>.faiss and             *)
(* disk[name].meta the file <name>_metadata.pkl.  A file records, beside   *)
(* its content, the save that wrote it (written_by); a write that fails    *)
(* after the file was opened leaves an unreadable file (corrupt).          *)
(***************************************************************************)
IOFaults == {"none", "faiss_open", "faiss_partial", "meta_open", "meta_partial"}

FaissFile(index, id) ==
    [exists |-> TRUE, corrupt |-> FALSE, written_by |-> id, vectors |-> index.vectors]

\* a metadata dict pickled with an empty mapping
MetaFileNoMap(s, id) ==
    [exists |-> TRUE, corrupt |-> FALSE, written_by |-> id,
     chunks |-> s.chunks,
     index_to_chunk_map |-> <<>>,
     created_at |-> id,
     num_chunks |-> Len(s.chunks)]

\* the metadata dict _save_index pickles
MetaFile(s, id) ==
    [exists |-> TRUE, corrupt |-> FALSE, written_by |-> id,
     chunks |-> s.chunks,
     index_to_chunk_map |-> s.index_to_chunk_map,
     created_at |-> id,
     num_chunks |-> Len(s.chunks)]

CorruptFile(id) == [exists |-> TRUE, corrupt |-> TRUE, written_by |-> id]

\* "if self.faiss_index is None or len(self.chunks) == 0: return"
SaveIsNoOp(s) == ~s.faiss_index.present \/ Len(s.chunks) = 0

\* _save_index: the vector store is written first, then the metadata; an exception
\* of either write is caught and the method returns None in every case
save_index(s, name, fault) ==
    IF s.raised \/ SaveIsNoOp(s) THEN s
    ELSE LET id == s.clock + 1
             t == [s EXCEPT !.clock = id]
             failed == [t EXCEPT !.caught = TRUE]
         IN IF fault = "faiss_open" THEN failed
            ELSE IF fault = "faiss_partial"
            THEN [failed EXCEPT !.disk[name].faiss = CorruptFile(id)]
            ELSE LET u == [t EXCEPT !.disk[name].faiss = FaissFile(s.faiss_index, id)]
                     v == [u EXCEPT !.caught = TRUE]
                 IN IF fault = "meta_open" THEN v
                    ELSE IF fault = "meta_partial"
                    THEN [v EXCEPT !.disk[name].meta = CorruptFile(id)]
                    ELSE [u EXCEPT !.disk[name].meta = MetaFile(s, id)]

\* what _save_index hands back to its caller: None, and no exception of its own
SaveOutcome(s) == [ret |-> "None", raised |-> s.raised]

\* the existence test of _load_index with "or" for "and"
BothExistEither(d, name) == d[name].faiss.exists \/ d[name].meta.exists

\* "os.path.exists(faiss_path) and os.path.exists(metadata_path)"
BothExist(d, name) == d[name].faiss.exists /\ d[name].meta.exists

\* faiss.read_index / pickle.load succeed on the file
Readable(file) == file.exists /\ ~file.corrupt

\* _load_index: [state, ret].  The vector store is assigned before the metadata is
\* read; an exception of either read is caught and False returned
load_index(s, name) ==
    IF BothExist(s.disk, name)
    THEN LET f == s.disk[name].faiss
             m == s.disk[name].meta
         IN IF ~Readable(f)
            THEN [state |-> s, ret |-> FALSE]
            ELSE LET t == [s EXCEPT !.faiss_index = [present |-> TRUE, vectors |-> f.vectors]]
                 IN IF ~Readable(m)
                    THEN [state |-> t, ret |-> FALSE]
                    ELSE [state |-> [t EXCEPT !.chunks = m.chunks,
                                              !.index_to_chunk_map = m.index_to_chunk_map],
                          ret |-> TRUE]
    ELSE [state |-> s, ret |-> FALSE]

DeleteFaults == {"none", "faiss_remove", "meta_remove"}

\* delete_index that reports True also from its except branch
DeleteResultAlwaysTrue(completed) == TRUE

\* the value delete_index returns: True at the end of the try block, False from
\* the except branch
DeleteResult(completed) == completed

\* delete_index: [state, ret, removal_failed]; os.remove fails as the fault says,
\* when it is called
delete_index(s, name, fault) ==
    IF s.disk[name].faiss.exists /\ fault = "faiss_remove"
    THEN [state |-> s, ret |-> DeleteResult(FALSE), removal_failed |-> TRUE]
    ELSE IF s.disk[name].meta.exists /\ fault = "meta_remove"
    THEN [state |-> [s EXCEPT !.disk[name].faiss = NoFile],
          ret |-> DeleteResult(FALSE), removal_failed |-> TRUE]
    ELSE [state |-> [s EXCEPT !.disk[name] = [faiss |-> NoFile, meta |-> NoFile]],
          ret |-> DeleteResult(TRUE), removal_failed |-> FALSE]

(***************************************************************************)
(* Retrieval.  A result is the sequence of the positions (from 0) of the   *)
(* returned chunks in self.chunks.                                         *)
(***************************************************************************)
\* source_filter = None
NoFilter == PyNone

ChunkAt(cs, p) == cs[p + 1]

\* list.sort(key=sim, reverse=True) by insertion: p goes before the first element
\* of strictly smaller similarity, so equal elements keep their order
RECURSIVE InsertDescending(_, _, _, _)
InsertDescending(sorted, p, q, cs) ==
    IF Len(sorted) = 0 THEN <<p>>
    ELSE IF CosGreater(q, ChunkAt(cs, p).embedding, ChunkAt(cs, Head(sorted)).embedding)
    THEN <<p>> \o sorted
    ELSE <<Head(sorted)>> \o InsertDescending(Tail(sorted), p, q, cs)

RECURSIVE SortDescending(_, _, _)
SortDescending(ps, q, cs) ==
    IF Len(ps) = 0 THEN <<>>
    ELSE InsertDescending(SortDescending(SubSeq(ps, 1, Len(ps) - 1), q, cs),
                          ps[Len(ps)], q, cs)

\* a slice that does not cut
TakeAll(xs, n) == xs

\* a slice that yields nothing when asked for more than there is
TakeOrNothing(xs, n) == IF n > Len(xs) THEN <<>> ELSE SubSeq(xs, 1, n)

\* xs[:n] for n >= 0
Take(xs, n) == SubSeq(xs, 1, IF n < Len(xs) THEN n ELSE Len(xs))

\* the positions 0 .. n-1 in order that satisfy Keep
Positions(n, Keep(_)) == SelectSeq([i \in 1..n |-> i - 1], Keep)

\* retrieve_relevant_chunks after the query was embedded as q
retrieve_relevant_chunks(cs, q, top_k, source_filter) ==
    LET filtered ==
            IF source_filter # NoFilter /\ source_filter # ""
            THEN Positions(Len(cs), LAMBDA p : ChunkAt(cs, p).source = source_filter)
            ELSE Positions(Len(cs), LAMBDA p : TRUE)
        similarities == SelectSeq(filtered, LAMBDA p : ChunkAt(cs, p).embedding # NoEmbedding)
    IN Take(SortDescending(similarities, q, cs), top_k)

\* how IndexFlatL2 orders vectors at equal distance: by increasing or by decreasing
\* identifier (the library does not promise either)
TieOrders == {"low_first", "high_first"}

RECURSIVE InsertAscending(_, _, _, _, _)
InsertAscending(sorted, id, q, vectors, tie) ==
    IF Len(sorted) = 0 THEN <<id>>
    ELSE LET d == L2Dist(q, vectors[id + 1])
             h == L2Dist(q, vectors[Head(sorted) + 1])
         IN IF d < h \/ (d = h /\ tie = "high_first")
            THEN <<id>> \o sorted
            ELSE <<Head(sorted)>> \o InsertAscending(Tail(sorted), id, q, vectors, tie)

RECURSIVE SortAscending(_, _, _, _)
SortAscending(n, q, vectors, tie) ==
    IF n = 0 THEN <<>>
    ELSE InsertAscending(SortAscending(n - 1, q, vectors, tie), n - 1, q, vectors, tie)

\* faiss_index.search(query_vector, k)[1][0]: the identifiers of the k nearest
\* vectors by increasing distance
faiss_search(index, q, k, tie) == Take(SortAscending(Len(index.vectors), q, index.vectors, tie), k)

Min(a, b) == IF a < b THEN a ELSE b

\* the loop of retrieve_relevant_chunks_faiss over the candidates from i on
RECURSIVE FaissCollect(_, _, _, _, _, _)
FaissCollect(s, candidates, i, relevant_chunks, top_k, source_filter) ==
    IF i > Len(candidates) THEN relevant_chunks
    ELSE LET idx == candidates[i]
         IN IF idx \notin DOMAIN s.index_to_chunk_map
               \/ s.index_to_chunk_map[idx] >= Len(s.chunks)
            THEN FaissCollect(s, candidates, i + 1, relevant_chunks, top_k, source_filter)
            ELSE LET chunk_idx == s.index_to_chunk_map[idx]
                     found == IF source_filter = NoFilter
                                 \/ ChunkAt(s.chunks, chunk_idx).source = source_filter
                              THEN Append(relevant_chunks, chunk_idx)
                              ELSE relevant_chunks
                 IN IF Len(found) >= top_k THEN found
                    ELSE FaissCollect(s, candidates, i + 1, found, top_k, source_filter)

\* whether retrieve_relevant_chunks_faiss falls back to retrieve_relevant_chunks
FaissIsEmpty(s) == ~s.faiss_index.present \/ Len(s.faiss_index.vectors) = 0

\* a request for top_k candidates instead of top_k * 2
FaissCandidatesNoOverFetch(s, q, top_k, tie) ==
    faiss_search(s.faiss_index, q, Min(top_k, Len(s.faiss_index.vectors)), tie)

\* the candidates retrieve_relevant_chunks_faiss asks the vector store for
FaissCandidates(s, q, top_k, tie) ==
    faiss_search(s.faiss_index, q, Min(top_k * 2, Len(s.faiss_index.vectors)), tie)

\* a FAISS retrieval that returns nothing when the store is absent or empty
retrieve_without_fallback(s, q, top_k, source_filter, tie) ==
    IF FaissIsEmpty(s) THEN <<>>
    ELSE FaissCollect(s, FaissCandidates(s, q, top_k, tie), 1, <<>>, top_k, source_filter)

\* retrieve_relevant_chunks_faiss after the query was embedded as q
retrieve_relevant_chunks_faiss(s, q, top_k, source_filter, tie) ==
    IF FaissIsEmpty(s)
    THEN retrieve_relevant_chunks(s.chunks, q, top_k, source_filter)
    ELSE FaissCollect(s, FaissCandidates(s, q, top_k, tie), 1, <<>>, top_k, source_filter)

(***************************************************************************)
(* The indexing and analysis operations.                                   *)
(***************************************************************************)
\* "if save_index: self._save_index(index_name)"
SaveIf(save, s, index_name, fault) == IF save THEN save_index(s, index_name, fault) ELSE s

\* the indexing loop over the chunk lists from state before, then the insertion of
\* what it appended
AppendAndAdd(before, lists) == AddAppended(before, FaissLists(before, lists, 1))

\* index_resume_with_faiss
index_resume_with_faiss(s, resume_text, save, index_name, fault) ==
    SaveIf(save, AppendAndAdd(clear_index(s), ResumeTable[resume_text]), index_name, fault)

\* index_job_description_with_faiss
index_job_description_with_faiss(s, jd_text, save, index_name, fault) ==
    SaveIf(save, AppendAndAdd(s, <<JobTable[jd_text]>>), index_name, fault)

\* "if job_description:"
Truthy(text) == text # PyNone /\ text # ""

\* get_embedding(query) of a retrieval
EmbedQuery(s) ==
    IF s.raised THEN s
    ELSE IF CanEmbed(s.budget, 1) THEN [s EXCEPT !.budget = Spend(s.budget, 1)]
    ELSE [s EXCEPT !.budget = 0, !.raised = TRUE]

\* the retrievals of an analysis run in call order: query, top_k, source_filter and
\* the name the result is bound to
analysis_retrievals == <<
    [var |-> "resume_chunks", query |-> "resume content", top_k |-> 10,
     source_filter |-> "resume"],
    [var |-> "jd_chunks", query |-> "job requirements", top_k |-> 5,
     source_filter |-> "job_description"],
    [var |-> "ats_rule_chunks", query |-> "ATS scoring rules", top_k |-> 5,
     source_filter |-> "ats_rules"] >>

\* one retrieval of an analysis run by the run's strategy ("faiss" or
\* "brute_force"), the query already embedded
RunRetrieve(s, strategy, tie, r) ==
    IF strategy = "faiss"
    THEN retrieve_relevant_chunks_faiss(s, get_embedding(r.query), r.top_k,
                                        r.source_filter, tie)
    ELSE retrieve_relevant_chunks(s.chunks, get_embedding(r.query), r.top_k,
                                  r.source_filter)

\* whether retrieval i of an analysis run is made
RetrievalMade(i, job_description) == i # 2 \/ Truthy(job_description)

\* the state after the get_embedding calls of the first i retrievals
RECURSIVE EmbedQueries(_, _, _)
EmbedQueries(s, i, job_description) ==
    IF i = 0 THEN s
    ELSE IF RetrievalMade(i, job_description)
    THEN EmbedQuery(EmbedQueries(s, i - 1, job_description))
    ELSE EmbedQueries(s, i - 1, job_description)

\* the three retrievals of an analysis run from state s: the state after them, what
\* each returned (nothing for one not made or not reached), has_jd, and whether
\* the branches under "if job_description:" were taken
Retrievals(s, job_description, strategy, tie) ==
    [state |-> EmbedQueries(s, Len(analysis_retrievals), job_description),
     found |-> [i \in 1..Len(analysis_retrievals) |->
                   IF RetrievalMade(i, job_description)
                      /\ ~EmbedQueries(s, i, job_description).raised
                   THEN RunRetrieve(s, strategy, tie, analysis_retrievals[i])
                   ELSE <<>>],
     has_jd |-> job_description # PyNone,
     jd_given |-> Truthy(job_description)]

\* "if job_description: self.index_job_description(job_description)"
IndexJobIfGiven(s, job_description) ==
    IF Truthy(job_description)
    THEN index_job_description(s, job_description) ELSE s

\* analyze_with_rag up to the call of _generate_analysis
analyze_with_rag(s, resume_text, job_description) ==
    Retrievals(index_ats_rules(IndexJobIfGiven(index_resume([s EXCEPT !.chunks = <<>>],
                                                            resume_text),
                                               job_description)),
               job_description, "brute_force", "low_first")

\* "if job_description: self.index_job_description_with_faiss(job_description,
\* save_index=True, index_name=index_name)"
IndexJobWithFaissIfGiven(s, job_description, index_name, fault) ==
    IF Truthy(job_description) /\ ~s.raised
    THEN index_job_description_with_faiss(s, job_description, TRUE, index_name, fault)
    ELSE s

\* analyze_with_rag_faiss up to the call of _generate_analysis
analyze_with_rag_faiss(s, resume_text, job_description, index_name, fault, tie) ==
    Retrievals(index_ats_rules(IndexJobWithFaissIfGiven(
                   index_resume_with_faiss(clear_index(s), resume_text, TRUE, index_name,
                                           fault),
                   job_description, index_name, fault)),
               job_description, "faiss", tie)

(***************************************************************************)
(* The Context Assembler (_build_context).                                 *)
(***************************************************************************)
\* "for chunk in resume_chunks: context += f'[Section: {chunk.section}]\n{chunk.text}\n\n'"
RECURSIVE ResumeEntries(_)
ResumeEntries(cs) ==
    IF cs = <<>> THEN ""
    ELSE "[Section: " \o Head(cs).section \o "]\n" \o Head(cs).text \o "\n\n"
         \o ResumeEntries(Tail(cs))

\* "for chunk in ...: context += f'{chunk.text}\n\n'"
RECURSIVE TextEntries(_)
TextEntries(cs) ==
    IF cs = <<>> THEN "" ELSE Head(cs).text \o "\n\n" \o TextEntries(Tail(cs))

\* "if jd_chunks:" and the job description section
JobSection(jd_chunks) ==
    IF jd_chunks # <<>> THEN "\n=== JOB DESCRIPTION ===\n" \o TextEntries(jd_chunks) ELSE ""

\* a Context Assembler that writes the job description header for an empty list too
build_context_always_jd(resume_chunks, jd_chunks, ats_chunks) ==
    "<retrieved_context>\n\n"
      \o "=== RESUME CONTENT ===\n" \o ResumeEntries(resume_chunks)
      \o "\n=== JOB DESCRIPTION ===\n" \o TextEntries(jd_chunks)
      \o "\n=== ATS SCORING RULES ===\n" \o TextEntries(ats_chunks)
      \o "</retrieved_context>"

\* _build_context
build_context(resume_chunks, jd_chunks, ats_chunks) ==
    "<retrieved_context>\n\n"
      \o "=== RESUME CONTENT ===\n" \o ResumeEntries(resume_chunks)
      \o JobSection(jd_chunks)
      \o "\n=== ATS SCORING RULES ===\n" \o TextEntries(ats_chunks)
      \o "</retrieved_context>"

(***************************************************************************)
(* Inputs of the pure-function harnesses.                                  *)
(***************************************************************************)
Alphabet == {"a", "b", " ", "\n"}

\* every string over Alphabet of length at most n
RECURSIVE Strings(_)
Strings(n) ==
    IF n = 0 THEN {""}
    ELSE LET shorter == Strings(n - 1)
         IN shorter \cup {s \o c : s \in shorter, c \in Alphabet}

\* every sequence over S of length 1..n
SeqsUpTo(S, n) == UNION {[1..k -> S] : k \in 1..n}

Paragraphs == {"", "a", "bb", " ", "\n", "a\nb"}

ScenarioChunkText == "AAAAAAAAAA\n\nBBBBBBBBBB\n\nCCCCCCCCCC"

ChunkTexts ==
    Strings(MaxTextLen)
      \cup {Join(ps, "\n\n") : ps \in SeqsUpTo(Paragraphs, MaxParas)}
      \cup {ScenarioChunkText, "a\n\nb\n\nAAAAAAAAAAAAAAAAAAAAAAAAA"}

ChunkSizes == (0..MaxChunkSize) \cup {20, DefaultChunkSize}

Lines == {"Skills", "EXPERIENCE", "", "Go", "top skills are a", "top skills are a b",
          "About me"}

SectionTexts ==
    {Join(ls, "\n") : ls \in SeqsUpTo(Lines, MaxParas)} \cup {ScenarioSectionText, ""}

(***************************************************************************)
(* The engine's state after construction, on an empty index directory.     *)
(***************************************************************************)
\* no analysis run is in progress
NoRuns == <<>>

EngineInit ==
    /\ chunks = <<>>
    /\ faiss_index = NoIndex
    /\ index_to_chunk_map = <<>>
    /\ disk = [n \in Names |-> [faiss |-> NoFile, meta |-> NoFile]]
    /\ clock = 0
    /\ last = [op |-> "__init__", name |-> "default", ret |-> FALSE, raised |-> FALSE]
    /\ runs = NoRuns

FnIdle == [op |-> "idle", text |-> "", chunk_size |-> 0, done |-> TRUE, out |-> <<>>]

engineVars == <<chunks, faiss_index, index_to_chunk_map, disk, clock, last, runs>>

(***************************************************************************)
(* The Chunker applied to each enumerated text and size bound.             *)
(***************************************************************************)
InitChunk ==
    /\ EngineInit
    /\ fn \in {[op |-> "chunk_text", text |-> t, chunk_size |-> n, done |-> FALSE,
                out |-> <<>>] : t \in ChunkTexts, n \in ChunkSizes}

ApplyChunkText ==
    /\ fn.op = "chunk_text"
    /\ ~fn.done
    /\ fn' = [fn EXCEPT !.done = TRUE,
                        !.out = chunk_text(fn.text, "resume", "general", fn.chunk_size)]
    /\ UNCHANGED engineVars

SpecChunk == InitChunk /\ [][ApplyChunkText]_vars

(***************************************************************************)
(* The Section Detector applied to each enumerated text.                   *)
(***************************************************************************)
InitSections ==
    /\ EngineInit
    /\ fn \in {[op |-> "_detect_sections", text |-> t, chunk_size |-> 0, done |-> FALSE,
                out |-> <<>>] : t \in SectionTexts}

ApplyDetectSections ==
    /\ fn.op = "_detect_sections"
    /\ ~fn.done
    /\ fn' = [fn EXCEPT !.done = TRUE, !.out = detect_sections(fn.text)]
    /\ UNCHANGED engineVars

SpecSections == InitSections /\ [][ApplyDetectSections]_vars

(***************************************************************************)
(* The Context Assembler applied to each enumerated triple of chunk lists. *)
(***************************************************************************)
\* longest chunk list handed to the Context Assembler
MaxContextChunks == 2

\* chunk lists of one source, repeats included
ChunkLists(source, sections) ==
    {<<>>} \cup SeqsUpTo({Chunk(t, source, sec) : t \in {"a", "b"}, sec \in sections},
                         MaxContextChunks)

InitContext ==
    /\ EngineInit
    /\ fn \in {[op |-> "_build_context", resume_chunks |-> r, jd_chunks |-> j,
                ats_chunks |-> a, done |-> FALSE, out |-> ""] :
                  r \in ChunkLists("resume", {"summary", "skills"}),
                  j \in ChunkLists("job_description", {"requirements"}),
                  a \in ChunkLists("ats_rules", {"formatting"})}

ApplyBuildContext ==
    /\ fn.op = "_build_context"
    /\ ~fn.done
    /\ fn' = [fn EXCEPT !.done = TRUE,
                        !.out = build_context(fn.resume_chunks, fn.jd_chunks,
                                              fn.ats_chunks)]
    /\ UNCHANGED engineVars

SpecContext == InitContext /\ [][ApplyBuildContext]_vars

(***************************************************************************)
(* The engine's operations as actions.  last records the latest call: its  *)
(* name, its arguments, what it returned and whether it raised.            *)
(***************************************************************************)
\* the appending operations are called on a collection of at most this many chunks
MaxChunks == 1
\* most saves attempted in a behaviour
MaxSaves == 2
\* the provider fails after at most this many answers, or never
MaxBudget == 1
\* largest top_k of a retrieval call
MaxTopK == 2

JobDescriptions == JobTexts \cup {PyNone}

\* and the top_k of the retrievals of an analysis run
TopKs == (0..MaxTopK) \cup {5}

QueryVectors == {<<1, 0>>, <<-1, 1>>}

Filters == {NoFilter, "", "resume", "job_description", "ats_rules"}

\* What the collaborators do during one call: the provider answers every
\* get_embedding or fails after budget answers, and the file system lets every
\* write through or fails one as fault says.
\* no collaborator fails
NoFailure == {[budget |-> NoFail, fault |-> "none"]}

\* the file system may fail one write
WriteFailures == {[budget |-> NoFail, fault |-> f] : f \in IOFaults}

\* the provider may fail
Budgets == (0..MaxBudget) \cup {NoFail}

ProviderFailures == {[budget |-> b, fault |-> "none"] : b \in Budgets}

\* the record an operation starts from
Cur(budget) ==
    [chunks |-> chunks, faiss_index |-> faiss_index,
     index_to_chunk_map |-> index_to_chunk_map, disk |-> disk, clock |-> clock,
     budget |-> budget, raised |-> FALSE, caught |-> FALSE]

\* the engine and the index directory as the operation leaves them
Assign(t) ==
    /\ chunks' = t.chunks
    /\ faiss_index' = t.faiss_index
    /\ index_to_chunk_map' = t.index_to_chunk_map
    /\ disk' = t.disk
    /\ clock' = t.clock

Commit(t) ==
    /\ t.clock <= MaxSaves
    /\ Assign(t)
    /\ UNCHANGED <<fn, runs>>

\* the guard of the operations that only append to the collection
MayAppend == Len(chunks) <= MaxChunks

\* an operation that returns nothing ends in state t
Done(op, t) ==
    /\ Commit(t)
    /\ last' = [op |-> op, raised |-> t.raised, caught |-> t.caught]

\* an operation that returns r.ret ends in state r.state
Returned(op, name, r) ==
    /\ Commit(r.state)
    /\ last' = [op |-> op, name |-> name, ret |-> r.ret, raised |-> FALSE]

\* an indexing operation called with text, the provider answering budget calls,
\* ends in state t
Indexed(op, text, budget, t) ==
    /\ Commit(t)
    /\ last' = [op |-> op, raised |-> t.raised, caught |-> t.caught, text |-> text,
                budget |-> budget]

IndexResume(budgets) ==
    \E text \in Resumes, budget \in budgets :
        /\ MayAppend
        /\ Indexed("index_resume", text, budget, index_resume(Cur(budget), text))

IndexJobDescription(budgets) ==
    \E text \in JobTexts, budget \in budgets :
        /\ MayAppend
        /\ Indexed("index_job_description", text, budget,
                   index_job_description(Cur(budget), text))

IndexAtsRules(budgets) ==
    \E budget \in budgets :
        /\ MayAppend
        /\ Indexed("index_ats_rules", PyNone, budget, index_ats_rules(Cur(budget)))

IndexResumeWithFaiss(envs, saves) ==
    \E text \in Resumes, save \in saves, name \in Names, env \in envs :
        /\ save \/ env.fault = "none"
        /\ Indexed("index_resume_with_faiss", text, env.budget,
                   index_resume_with_faiss(Cur(env.budget), text, save, name, env.fault))

IndexJobDescriptionWithFaiss(envs, saves) ==
    \E text \in JobTexts, save \in saves, name \in Names, env \in envs :
        /\ MayAppend
        /\ save \/ env.fault = "none"
        /\ Indexed("index_job_description_with_faiss", text, env.budget,
                   index_job_description_with_faiss(Cur(env.budget), text, save, name,
                                                    env.fault))

\* an analysis run ends with the retrievals r: last keeps what the run hands to
\* _build_context and _generate_analysis
Analysed(op, r) ==
    /\ Commit(r.state)
    /\ last' = [op |-> op, raised |-> r.state.raised, caught |-> r.state.caught,
                has_jd |-> r.has_jd, jd_given |-> r.jd_given,
                resume_chunks |-> r.found[1],
                jd_chunks |-> r.found[2], ats_rule_chunks |-> r.found[3]]

AnalyzeWithRag(budgets) ==
    \E resume \in Resumes, jd \in JobDescriptions, budget \in budgets :
        Analysed("analyze_with_rag", analyze_with_rag(Cur(budget), resume, jd))

AnalyzeWithRagFaiss(envs) ==
    \E resume \in Resumes, jd \in JobDescriptions, name \in Names, env \in envs,
       tie \in TieOrders :
        Analysed("analyze_with_rag_faiss",
                 analyze_with_rag_faiss(Cur(env.budget), resume, jd, name, env.fault, tie))

ClearIndex == Done("clear_index", clear_index(Cur(NoFail)))

\* _save_index called by itself ends in state t
Saved(name, t) ==
    /\ Commit(t)
    /\ last' = [op |-> "_save_index", name |-> name, raised |-> t.raised,
                caught |-> t.caught, outcome |-> SaveOutcome(t)]

SaveIndex(faults) ==
    \E name \in Names, fault \in faults :
        Saved(name, save_index(Cur(NoFail), name, fault))

LoadIndex ==
    \E name \in Names : Returned("_load_index", name, load_index(Cur(NoFail), name))

\* delete_index returns r.ret
Deleted(name, r) ==
    /\ Commit(r.state)
    /\ last' = [op |-> "delete_index", name |-> name, ret |-> r.ret, raised |-> FALSE,
                removal_failed |-> r.removal_failed]

DeleteIndex(faults) ==
    \E name \in Names, fault \in faults :
        Deleted(name, delete_index(Cur(NoFail), name, fault))

\* RAGEngine(...) in a new process on the same index directory: __init__ ends with
\* _load_index("default")
Restart == Returned("__init__", "default", load_index(clear_index(Cur(NoFail)), "default"))

\* a retrieval call returns result, or raises and returns nothing
Retrieved(op, q, top_k, source_filter, fallback, candidates, raised, result) ==
    /\ last' = [op |-> op, top_k |-> top_k, source_filter |-> source_filter, query |-> q,
                raised |-> raised, fallback |-> fallback, candidates |-> candidates,
                result |-> IF raised THEN <<>> ELSE result]
    /\ UNCHANGED <<chunks, faiss_index, index_to_chunk_map, disk, clock, fn, runs>>

RetrieveRelevantChunks ==
    \E q \in QueryVectors, top_k \in TopKs, source_filter \in Filters :
        Retrieved("retrieve_relevant_chunks", q, top_k, source_filter, FALSE, <<>>, FALSE,
                  retrieve_relevant_chunks(chunks, q, top_k, source_filter))

\* index.search(x, 0) returns no identifier or, in the releases of the library that
\* assert k > 0, raises
RetrieveRelevantChunksFaiss ==
    \E q \in QueryVectors, top_k \in TopKs, source_filter \in Filters, tie \in TieOrders,
       asserts_k \in BOOLEAN :
        /\ asserts_k => (top_k = 0 /\ ~FaissIsEmpty(Cur(NoFail)))
        /\ Retrieved("retrieve_relevant_chunks_faiss", q, top_k, source_filter,
                     FaissIsEmpty(Cur(NoFail)),
                     IF FaissIsEmpty(Cur(NoFail)) THEN <<>>
                     ELSE FaissCandidates(Cur(NoFail), q, top_k, tie),
                     asserts_k,
                     retrieve_relevant_chunks_faiss(Cur(NoFail), q, top_k, source_filter,
                                                    tie))

Init == EngineInit /\ fn = FnIdle

\* every operation that changes the engine or the index directory, with
\* collaborators that do not fail
Next ==
    \/ IndexResume({NoFail})
    \/ IndexJobDescription({NoFail})
    \/ IndexAtsRules({NoFail})
    \/ IndexResumeWithFaiss(NoFailure, BOOLEAN)
    \/ IndexJobDescriptionWithFaiss(NoFailure, BOOLEAN)
    \/ AnalyzeWithRag({NoFail})
    \/ AnalyzeWithRagFaiss(NoFailure)
    \/ ClearIndex
    \/ SaveIndex({"none"})
    \/ LoadIndex
    \/ DeleteIndex({"none"})
    \/ Restart

Spec == Init /\ [][Next]_vars

\* persistence on a file system whose writes and removals may fail
NextFaults ==
    \/ IndexResumeWithFaiss(WriteFailures, BOOLEAN)
    \/ AnalyzeWithRagFaiss(WriteFailures)
    \/ ClearIndex
    \/ SaveIndex(IOFaults)
    \/ LoadIndex
    \/ DeleteIndex(DeleteFaults)
    \/ Restart

SpecFaults == Init /\ [][NextFaults]_vars

\* saving, loading and deleting the snapshots of the indexes the FAISS indexing
\* operations build, on a file system that does not fail
NextPersist ==
    \/ IndexResumeWithFaiss(NoFailure, BOOLEAN)
    \/ IndexJobDescriptionWithFaiss(NoFailure, BOOLEAN)
    \/ AnalyzeWithRag({NoFail})
    \/ ClearIndex
    \/ SaveIndex({"none"})
    \/ LoadIndex
    \/ DeleteIndex({"none"})
    \/ Restart

SpecPersist == Init /\ [][NextPersist]_vars

\* retrieval calls on the indexes the indexing operations build
NextRetrieval ==
    \/ IndexResume({NoFail})
    \/ IndexJobDescription({NoFail})
    \/ IndexAtsRules({NoFail})
    \/ IndexResumeWithFaiss(NoFailure, {FALSE})
    \/ IndexJobDescriptionWithFaiss(NoFailure, {FALSE})
    \/ AnalyzeWithRag({NoFail})
    \/ ClearIndex
    \/ RetrieveRelevantChunks
    \/ RetrieveRelevantChunksFaiss

SpecRetrieval == Init /\ [][NextRetrieval]_vars

\* indexing with an embedding provider that may fail
NextProvider ==
    \/ IndexResume(Budgets)
    \/ IndexJobDescription(Budgets)
    \/ IndexAtsRules(Budgets)
    \/ IndexResumeWithFaiss(ProviderFailures, {FALSE})
    \/ IndexJobDescriptionWithFaiss(ProviderFailures, {FALSE})
    \/ ClearIndex

SpecProvider == Init /\ [][NextProvider]_vars

(***************************************************************************)
(* Two analyze_with_rag_faiss calls on one engine, interleaved at the      *)
(* calls the method makes on the engine: clear_index, the indexing calls   *)
(* and the three retrievals.  runs[r].pc counts the calls run r has made,  *)
(* runs[r].found holds the chunks its retrievals returned and              *)
(* runs[r].overlapped records whether the other run made a call while run  *)
(* r was between its first and its last call.                              *)
(***************************************************************************)
RunIds == {1, 2}

\* the arguments of the two runs
RunInputs == <<
    [resume_text |-> "Built a cache.", job_description |-> "Need Go."],
    [resume_text |-> ScenarioSectionText, job_description |-> PyNone] >>

\* the calls of analyze_with_rag_faiss in order
RunSteps == <<"clear_index", "index_resume_with_faiss", "index_job_description_with_faiss",
              "index_ats_rules", "retrieve_resume_chunks", "retrieve_jd_chunks",
              "retrieve_ats_rule_chunks">>

InitRuns ==
    /\ chunks = <<>>
    /\ faiss_index = NoIndex
    /\ index_to_chunk_map = <<>>
    /\ disk = [n \in Names |-> [faiss |-> NoFile, meta |-> NoFile]]
    /\ clock = 0
    /\ last = [op |-> "__init__", name |-> "default", ret |-> FALSE, raised |-> FALSE]
    /\ fn = FnIdle
    /\ runs = [r \in RunIds |-> [pc |-> 0, overlapped |-> FALSE, found |-> <<>>]]

InProgress(run) == run.pc > 0 /\ run.pc < Len(RunSteps)

\* run r is about to make the call named step
AtStep(r, step) == runs[r].pc < Len(RunSteps) /\ RunSteps[runs[r].pc + 1] = step

\* run r has made its next call, which left the engine as t and returned found
\* (for a retrieval)
Stepped(r, t, found) ==
    /\ Assign(t)
    /\ runs' = [q \in RunIds |->
                   IF q = r
                   THEN [runs[r] EXCEPT !.pc = @ + 1, !.found = @ \o found]
                   ELSE [runs[q] EXCEPT !.overlapped = @ \/ InProgress(runs[q])]]
    /\ last' = [op |-> "analyze_with_rag_faiss", run |-> r, step |-> runs[r].pc + 1]
    /\ UNCHANGED fn

RunClearIndex ==
    \E r \in RunIds :
        /\ AtStep(r, "clear_index")
        /\ Stepped(r, clear_index(Cur(NoFail)), <<>>)

RunIndexResume ==
    \E r \in RunIds :
        /\ AtStep(r, "index_resume_with_faiss")
        /\ Stepped(r, index_resume_with_faiss(Cur(NoFail), RunInputs[r].resume_text, TRUE,
                                              "default", "none"), <<>>)

RunIndexJobDescription ==
    \E r \in RunIds :
        /\ AtStep(r, "index_job_description_with_faiss")
        /\ Stepped(r, IndexJobWithFaissIfGiven(Cur(NoFail), RunInputs[r].job_description,
                                               "default", "none"), <<>>)

RunIndexAtsRules ==
    \E r \in RunIds :
        /\ AtStep(r, "index_ats_rules")
        /\ Stepped(r, index_ats_rules(Cur(NoFail)), <<>>)

\* the chunks at the positions ps of the collection cs
ChunksAt(cs, ps) == [i \in 1..Len(ps) |-> ChunkAt(cs, ps[i])]

\* retrieval i of run r: the chunks it returns, none when it is not made
RunRetrieval(r, i) ==
    \E tie \in TieOrders :
        /\ AtStep(r, RunSteps[4 + i])
        /\ Stepped(r, Cur(NoFail),
                   << IF RetrievalMade(i, RunInputs[r].job_description)
                      THEN ChunksAt(chunks, RunRetrieve(Cur(NoFail), "faiss", tie,
                                                        analysis_retrievals[i]))
                      ELSE <<>> >>)

RunRetrieveResume == \E r \in RunIds : RunRetrieval(r, 1)

RunRetrieveJobDescription == \E r \in RunIds : RunRetrieval(r, 2)

RunRetrieveAtsRules == \E r \in RunIds : RunRetrieval(r, 3)

NextRuns ==
    \/ RunClearIndex
    \/ RunIndexResume
    \/ RunIndexJobDescription
    \/ RunIndexAtsRules
    \/ RunRetrieveResume
    \/ RunRetrieveJobDescription
    \/ RunRetrieveAtsRules

SpecRuns == InitRuns /\ [][NextRuns]_vars

(***************************************************************************)
(* Claims about the Chunker.                                               *)
(***************************************************************************)
TextsOf(cs) == [i \in 1..Len(cs) |-> cs[i].text]

NonEmptyOnly(ss) == SelectSeq(ss, LAMBDA t : t # "")

\* the paragraphs grouped into consecutive runs that end at the positions in cuts,
\* each run joined by blank lines and trimmed
RECURSIVE Regroup(_, _, _, _)
Regroup(paras, i, cur, cuts) ==
    IF i > Len(paras) THEN <<>>
    ELSE LET cur2 == Append(cur, paras[i])
         IN IF i \in cuts \/ i = Len(paras)
            THEN <<Strip(Join(cur2, "\n\n"))>> \o Regroup(paras, i + 1, <<>>, cuts)
            ELSE Regroup(paras, i + 1, cur2, cuts)

\* C4: chunk_text never emits a chunk whose text is empty or whitespace-only, and
\* the emitted texts are, in order, the input's paragraphs grouped into
\* consecutive runs (each paragraph in exactly one run, none split), each run
\* trimmed and the runs that trim to nothing left out.
C4_ChunksReproduceParagraphs ==
    (fn.op = "chunk_text" /\ fn.done) =>
        LET paras == Split(fn.text, "\n\n")
        IN /\ \A i \in 1..Len(fn.out) : Strip(fn.out[i].text) # ""
           /\ \E cuts \in SUBSET (1..(Len(paras) - 1)) :
                  TextsOf(fn.out) = NonEmptyOnly(Regroup(paras, 1, <<>>, cuts))

\* a text of three paragraphs, one of them blank, chunked into two chunks
C4_Witness ==
    /\ fn.op = "chunk_text" /\ fn.done
    /\ fn.text = "a\n\n \n\nbb" /\ fn.chunk_size = 4
    /\ TextsOf(fn.out) = <<"a", "bb">>

ScenarioChunkDone ==
    fn.op = "chunk_text" /\ fn.done /\ fn.text = ScenarioChunkText /\ fn.chunk_size = 20

\* C5 as stated: bound 20 on the three 10-character paragraphs gives two chunks,
\* the first holding the first two paragraphs.
C5_Original_TwoChunks ==
    ScenarioChunkDone => TextsOf(fn.out) = <<"AAAAAAAAAA\n\nBBBBBBBBBB", "CCCCCCCCCC">>

\* C5 amended: bound 20 on the three 10-character paragraphs gives three chunks,
\* one per paragraph: the buffer holds a paragraph and its "\n\n" (12 characters),
\* so adding the next paragraph reaches the bound and closes the buffer.
C5_ScenarioThreeChunks ==
    ScenarioChunkDone => TextsOf(fn.out) = <<"AAAAAAAAAA", "BBBBBBBBBB", "CCCCCCCCCC">>

C5_Witness == ScenarioChunkDone /\ Len(fn.out) = 3

(***************************************************************************)
(* Claims about the Section Detector.                                      *)
(***************************************************************************)
AllKeywords(k) == {section_keywords[k].keywords[j] : j \in 1..Len(section_keywords[k].keywords)}

\* a line with fewer than 5 tokens whose lowercased text contains a keyword
IsHeaderLine(line) ==
    /\ TokenCount(line) < 5
    /\ \E k \in 1..Len(section_keywords) : \E kw \in AllKeywords(k) : Contains(Lower(line), kw)

\* the first label of the table one of whose keywords the lowercased line contains
LabelOf(line) ==
    LET k == CHOOSE k \in 1..Len(section_keywords) :
                 /\ \E kw \in AllKeywords(k) : Contains(Lower(line), kw)
                 /\ \A j \in 1..(k - 1) : \A kw \in AllKeywords(j) : ~Contains(Lower(line), kw)
    IN section_keywords[k].name

IsBlank(line) == Strip(line) = ""

BodyLines(lines) == SelectSeq(lines, LAMBDA l : ~IsBlank(l) /\ ~IsHeaderLine(l))

Entry(name, lines) ==
    IF Len(BodyLines(lines)) = 0 THEN <<>>
    ELSE <<[name |-> name, text |-> Join(BodyLines(lines), "\n")]>>

HeaderPositions(lines) == {i \in 1..Len(lines) : IsHeaderLine(lines[i])}

\* C6: a line is a header exactly when it has fewer than 5 tokens and contains a
\* keyword; accumulation starts under summary; on a header the accumulated lines
\* are flushed (skipped if empty) and accumulation restarts under the matched
\* label.  Stated on the output: no header or blank line is ever part of a
\* section's text; a text without header keeps all its other lines under summary;
\* a text with one header (of another label than summary) gives the lines before
\* it under summary, then the lines after it under the header's label; and the
\* scenario text gives skills then experience.
C6_SectionDetector ==
    (fn.op = "_detect_sections" /\ fn.done) =>
        LET lines == Split(fn.text, "\n")
            hs == HeaderPositions(lines)
        IN /\ \A e \in 1..Len(fn.out) :
                 \A l \in 1..Len(Split(fn.out[e].text, "\n")) :
                     LET line == Split(fn.out[e].text, "\n")[l]
                     IN ~IsBlank(line) /\ ~IsHeaderLine(line)
           /\ hs = {} => fn.out = Entry("summary", lines)
           /\ \A h \in hs :
                 (hs = {h} /\ LabelOf(lines[h]) # "summary") =>
                     fn.out = Entry("summary", SubSeq(lines, 1, h - 1))
                                \o Entry(LabelOf(lines[h]), SubSeq(lines, h + 1, Len(lines)))
           /\ fn.text = ScenarioSectionText =>
                 fn.out = << [name |-> "skills", text |-> "Python, Go"],
                             [name |-> "experience", text |-> "Built a cache."] >>

C6_Witness ==
    /\ fn.op = "_detect_sections" /\ fn.done
    /\ fn.text = ScenarioSectionText
    /\ Len(fn.out) = 2 /\ fn.out[1].name = "skills"

(***************************************************************************)
(* Claims about the engine's state.                                        *)
(***************************************************************************)
\* the identifiers of the vectors in the vector store
StoredIds == 0..(Len(faiss_index.vectors) - 1)

\* C1: index_to_chunk_map is a bijection from the vector-store identifiers onto a
\* subset of the positions of the current collection: every stored identifier is
\* mapped, no two to the same position, every value is a position inside the
\* collection, and the chunk there is the one whose embedding was stored under
\* the identifier.
C1_MapIsBijection ==
    /\ DOMAIN index_to_chunk_map = StoredIds
    /\ \A a, b \in StoredIds :
           index_to_chunk_map[a] = index_to_chunk_map[b] => a = b
    /\ \A id \in StoredIds :
           /\ index_to_chunk_map[id] \in 0..(Len(chunks) - 1)
           /\ ChunkAt(chunks, index_to_chunk_map[id]).embedding = faiss_index.vectors[id + 1]

\* the state _save_index writes a snapshot of: a vector store and a non-empty
\* collection
NonEmptyIndexed == faiss_index.present /\ Len(chunks) > 0

\* C2: a load of the name a non-empty indexed state was just saved under, by the
\* same engine (_load_index) or by a fresh one (__init__), finds the snapshot and
\* yields the saved collection (order, text, source, section, embedding) and the
\* saved identifier-to-chunk mapping.
C2_SaveLoadRoundTrip ==
    [][(/\ last.op = "_save_index"
        /\ NonEmptyIndexed
        /\ last'.op \in {"_load_index", "__init__"}
        /\ last'.name = last.name)
       => (/\ last'.ret
           /\ chunks' = chunks
           /\ index_to_chunk_map' = index_to_chunk_map)]_vars

\* a fresh engine holds the two chunks and the mapping of a snapshot it loaded
C2_Witness ==
    /\ last.op = "__init__" /\ last.ret
    /\ Len(chunks) = 2
    /\ index_to_chunk_map = (0 :> 0 @@ 1 :> 1)
    /\ disk[last.name].meta.chunks = chunks

(***************************************************************************)
(* Claims about retrieval.                                                 *)
(***************************************************************************)
\* a filter is given: neither None nor the empty string, which
\* retrieve_relevant_chunks takes for no filter ("if source_filter:")
FilterGiven(source_filter) == source_filter # NoFilter /\ source_filter # ""

\* non-increasing cosine similarity to q, equal similarities in insertion order
RankedBySimilarity(result, q) ==
    \A i, j \in 1..Len(result) :
        i < j =>
            /\ ~CosGreater(q, ChunkAt(chunks, result[j]).embedding,
                           ChunkAt(chunks, result[i]).embedding)
            /\ CosGreater(q, ChunkAt(chunks, result[i]).embedding,
                          ChunkAt(chunks, result[j]).embedding)
               \/ result[i] < result[j]

\* the chunks of result are those of some of the candidates, in the candidates'
\* order
InCandidateOrder(result, candidates) ==
    \E pick \in [1..Len(result) -> 1..Len(candidates)] :
        /\ \A i, j \in 1..Len(result) : i < j => pick[i] < pick[j]
        /\ \A i \in 1..Len(result) :
               /\ candidates[pick[i]] \in DOMAIN index_to_chunk_map
               /\ index_to_chunk_map[candidates[pick[i]]] = result[i]

\* C3: a retrieval by either strategy returns at most top_k chunks, each of the
\* source the filter names when one is given, in ranked order: non-increasing
\* cosine similarity with ties in insertion order for the brute-force strategy
\* (and the FAISS strategy's fallback to it), the order in which the vector store
\* returned the candidates for the FAISS strategy.
C3_RetrievalBoundedFilteredRanked ==
    (last.op \in {"retrieve_relevant_chunks", "retrieve_relevant_chunks_faiss"}
     /\ ~last.raised) =>
        /\ Len(last.result) <= last.top_k
        /\ \A i \in 1..Len(last.result) :
               /\ last.result[i] \in 0..(Len(chunks) - 1)
               /\ FilterGiven(last.source_filter) =>
                      ChunkAt(chunks, last.result[i]).source = last.source_filter
        /\ IF last.op = "retrieve_relevant_chunks" \/ last.fallback
           THEN RankedBySimilarity(last.result, last.query)
           ELSE InCandidateOrder(last.result, last.candidates)

\* the FAISS strategy asked for two candidates, skipped the nearer one for its
\* source and returned the other
C3_Witness ==
    /\ last.op = "retrieve_relevant_chunks_faiss" /\ ~last.fallback
    /\ last.top_k = 1 /\ last.source_filter = "job_description"
    /\ Len(last.candidates) = 2
    /\ Len(last.result) = 1
    /\ index_to_chunk_map[last.candidates[2]] = last.result[1]

(***************************************************************************)
(* Claims about persistence.                                               *)
(***************************************************************************)
\* C7: under every name the vector-store file and the metadata file are both
\* present and written by the same save, or both absent, also after a save or a
\* delete one of whose I/O steps failed.
C7_FilesPaired ==
    \A n \in Names :
        \/ ~disk[n].faiss.exists /\ ~disk[n].meta.exists
        \/ /\ disk[n].faiss.exists /\ disk[n].meta.exists
           /\ disk[n].faiss.written_by = disk[n].meta.written_by

\* C8: delete_index returns True only when neither file of the name remains, and
\* returns False when a removal failed.
C8_DeleteReportsOutcome ==
    last.op = "delete_index" =>
        /\ last.ret => (~disk[last.name].faiss.exists /\ ~disk[last.name].meta.exists)
        /\ last.removal_failed => ~last.ret

\* a removal failed, the file is still there and delete_index returned False
C8_Witness ==
    /\ last.op = "delete_index"
    /\ last.removal_failed /\ ~last.ret
    /\ disk[last.name].meta.exists /\ ~disk[last.name].faiss.exists

\* what the caller of a _save_index that wrote both files observes
SuccessfulSaveOutcome == [ret |-> "None", raised |-> FALSE]

\* C9: a _save_index one of whose writes failed hands its caller an outcome other
\* than that of a successful save, and an analysis run whose save failed ends
\* with the failure instead of going on to its retrievals.
C9_SaveFailureReported ==
    /\ (last.op = "_save_index" /\ last.caught) => last.outcome # SuccessfulSaveOutcome
    /\ (last.op = "analyze_with_rag_faiss" /\ last.caught) => last.raised

\* both files of the name are on disk
BothPresent(n) == disk[n].faiss.exists /\ disk[n].meta.exists

\* C10: _load_index returns True only when both files of the name are present;
\* when one is missing it returns False without raising and leaves the
\* collection, the mapping and the vector store as they were; when it returns
\* True all three are those of the snapshot.
C10_LoadFoundOnlyWhenBothPresent ==
    [][last'.op = "_load_index" =>
         /\ last'.ret => BothPresent(last'.name)
         /\ ~BothPresent(last'.name) =>
                /\ ~last'.ret /\ ~last'.raised
                /\ UNCHANGED <<chunks, index_to_chunk_map, faiss_index>>
         /\ last'.ret =>
                /\ chunks' = disk[last'.name].meta.chunks
                /\ index_to_chunk_map' = disk[last'.name].meta.index_to_chunk_map
                /\ faiss_index' = [present |-> TRUE,
                                   vectors |-> disk[last'.name].faiss.vectors]]_vars

\* _load_index found the vector-store file without its metadata file, returned
\* False and left a non-empty collection in memory
C10_Witness ==
    /\ last.op = "_load_index" /\ ~last.ret
    /\ disk[last.name].faiss.exists /\ ~disk[last.name].meta.exists
    /\ Len(chunks) > 0 /\ faiss_index.present

(***************************************************************************)
(* Claims about concurrent analysis runs.                                  *)
(***************************************************************************)
Range(xs) == {xs[i] : i \in 1..Len(xs)}

\* the chunks index_resume_with_faiss makes of the resume of run r
OwnResumeChunks(r) ==
    Range(Embedded(Flatten(ResumeTable[RunInputs[r].resume_text]),
                   Len(Flatten(ResumeTable[RunInputs[r].resume_text]))))

\* the chunks index_job_description_with_faiss makes of the job description of run r
OwnJobChunks(r) ==
    IF Truthy(RunInputs[r].job_description)
    THEN Range(Embedded(JobTable[RunInputs[r].job_description],
                        Len(JobTable[RunInputs[r].job_description])))
    ELSE {}

\* xs lists each element of S once
ListsExactly(xs, S) == Range(xs) = S /\ Len(xs) = Cardinality(S)

\* C11: a run during which the other run made no call (the runs executed one
\* after the other) retrieves exactly the resume chunks and the job description
\* chunks it indexed itself; the witness is the interleaved case, a run whose resume
\* retrieval returned a chunk of the other run's resume
C11_SequentialRunsIsolated ==
    \A r \in RunIds :
        ~runs[r].overlapped =>
            /\ runs[r].pc >= 5 => ListsExactly(runs[r].found[1], OwnResumeChunks(r))
            /\ runs[r].pc >= 6 => ListsExactly(runs[r].found[2], OwnJobChunks(r))

C11_Witness ==
    \E r \in RunIds, q \in RunIds :
        /\ q # r
        /\ runs[r].pc = Len(RunSteps)
        /\ runs[r].overlapped
        /\ \E c \in Range(runs[r].found[1]) :
               c \in OwnResumeChunks(q) /\ c \notin OwnResumeChunks(r)

(***************************************************************************)
(* Claims about a failing embedding provider.                              *)
(***************************************************************************)
IndexingOps == {"index_resume", "index_job_description", "index_ats_rules",
                "index_resume_with_faiss", "index_job_description_with_faiss"}

\* the chunks an indexing operation makes of its argument, in order, embedded
ChunksToIndex(op, text) ==
    IF op \in {"index_resume", "index_resume_with_faiss"}
    THEN Embedded(Flatten(ResumeTable[text]), Len(Flatten(ResumeTable[text])))
    ELSE IF op = "index_ats_rules"
    THEN Embedded(Flatten(RuleChunkLists), Len(Flatten(RuleChunkLists)))
    ELSE Embedded(JobTable[text], Len(JobTable[text]))

\* every chunk of the collection has an embedding and so has every entry of the store
AllEmbedded(cs, index) ==
    /\ \A i \in 1..Len(cs) : cs[i].embedding # NoEmbedding
    /\ \A i \in 1..Len(index.vectors) : index.vectors[i] # NoEmbedding

\* the collection after an indexing call is the collection before it (empty for
\* index_resume_with_faiss, which clears first) followed by the first n chunks of
\* the argument
AppendedPrefix(before, after, expected, n) ==
    /\ n \in 0..Len(expected)
    /\ after = before \o SubSeq(expected, 1, n)

\* C12: an indexing call raises exactly when the provider fails on one of the
\* chunks of its argument (it answers fewer calls than the argument has chunks);
\* a call that raises appended none of the chunks from the failing one on and
\* no more chunks than the provider answered, a call that returns appended all of
\* them; and after every step each chunk of the collection and each entry of the
\* vector store has an embedding
C12_ProviderFailurePropagates ==
    [][/\ AllEmbedded(chunks', faiss_index')
       /\ last'.op \in IndexingOps =>
            LET expected == ChunksToIndex(last'.op, last'.text)
                before == IF last'.op = "index_resume_with_faiss" THEN <<>> ELSE chunks
                n == Len(chunks') - Len(before)
            IN /\ AppendedPrefix(before, chunks', expected, n)
               /\ last'.raised <=> (last'.budget # NoFail /\ last'.budget < Len(expected))
               /\ last'.raised => n <= last'.budget
               /\ ~last'.raised => n = Len(expected)]_vars

C12_Witness ==
    /\ last.op = "index_resume_with_faiss"
    /\ last.raised
    /\ last.budget = 1
    /\ Len(chunks) = 1
    /\ ~faiss_index.present

(***************************************************************************)
(* Claims about the size of a retrieval's result.                          *)
(***************************************************************************)
IsRetrieval == last.op \in {"retrieve_relevant_chunks", "retrieve_relevant_chunks_faiss"}

\* the number of chunks the index searched by the call holds: the vectors of the
\* store when retrieve_relevant_chunks_faiss searches it, the chunks of the
\* collection otherwise
Held ==
    IF last.op = "retrieve_relevant_chunks_faiss" /\ ~last.fallback
    THEN Len(faiss_index.vectors) ELSE Len(chunks)

Distinct(xs) == \A i, j \in 1..Len(xs) : xs[i] = xs[j] => i = j

\* C13: a retrieval without source filter that asks for more chunks than the
\* index holds returns, under both strategies, as many distinct chunks as the
\* index holds, and does not raise
C13_AsksForMoreThanHeld ==
    (IsRetrieval /\ last.source_filter = NoFilter /\ last.top_k > Held) =>
        /\ ~last.raised
        /\ Len(last.result) = Held
        /\ Distinct(last.result)

C13_Witness ==
    /\ last.op = "retrieve_relevant_chunks_faiss"
    /\ ~last.fallback
    /\ last.source_filter = NoFilter
    /\ last.top_k = 5
    /\ Len(faiss_index.vectors) = 2
    /\ Len(last.result) = 2

\* C14: when the vector store is absent or holds no vector,
\* retrieve_relevant_chunks_faiss returns what retrieve_relevant_chunks returns on
\* the same collection for the same query, top_k and source_filter, and does not
\* raise
C14_FallbackIsBruteForce ==
    (/\ last.op = "retrieve_relevant_chunks_faiss"
     /\ (~faiss_index.present \/ Len(faiss_index.vectors) = 0)) =>
        /\ ~last.raised
        /\ last.result = retrieve_relevant_chunks(chunks, last.query, last.top_k,
                                                  last.source_filter)

C14_Witness ==
    /\ last.op = "retrieve_relevant_chunks_faiss"
    /\ ~faiss_index.present
    /\ last.source_filter = "resume"
    /\ Len(chunks) > Len(last.result)
    /\ Len(last.result) = 2

(***************************************************************************)
(* Claims about the Context Assembler.                                     *)
(***************************************************************************)
ResumeMark == "=== RESUME CONTENT ==="
JobMark == "=== JOB DESCRIPTION ==="
RulesMark == "=== ATS SCORING RULES ==="
EndMark == "</retrieved_context>"

\* the text of out after the header that starts at from, up to position to - 1
Segment(out, from, mark, to) == SubSeq(out, from + Len(mark), to - 1)

\* the blocks of a segment: its pieces between blank lines, stripped, the empty
\* ones left out
Blocks(segment) ==
    NonEmptyOnly([i \in DOMAIN Split(segment, "\n\n") |-> Strip(Split(segment, "\n\n")[i])])

Labelled(cs) == [i \in 1..Len(cs) |-> "[Section: " \o cs[i].section \o "]\n" \o cs[i].text]

\* where the resume section ends: at the job description header or, without one,
\* at the rules header
ResumeEnd(out) == IF Contains(out, JobMark) THEN Find(out, JobMark) ELSE Find(out, RulesMark)

\* C15: the context holds the resume header, then one block per resume chunk made
\* of the chunk's section label and its text, then the job description header and
\* one block per job description chunk exactly when that list is not empty, then
\* the rules header and one block per rule chunk, then the closing tag; the blocks
\* of each section are the chunks of its list in the list's order, a chunk that
\* occurs twice in a list giving two blocks
C15_ContextAssembler ==
    (fn.op = "_build_context" /\ fn.done) =>
        /\ Find(fn.out, "<retrieved_context>") = 1
        /\ Find(fn.out, ResumeMark) > 1
        /\ Contains(fn.out, JobMark) <=> fn.jd_chunks # <<>>
        /\ Find(fn.out, ResumeMark) < ResumeEnd(fn.out)
        /\ ResumeEnd(fn.out) <= Find(fn.out, RulesMark)
        /\ Find(fn.out, RulesMark) < Find(fn.out, EndMark)
        /\ Find(fn.out, EndMark) + Len(EndMark) = Len(fn.out) + 1
        /\ Blocks(Segment(fn.out, Find(fn.out, ResumeMark), ResumeMark, ResumeEnd(fn.out)))
             = Labelled(fn.resume_chunks)
        /\ Contains(fn.out, JobMark) =>
             Blocks(Segment(fn.out, Find(fn.out, JobMark), JobMark, Find(fn.out, RulesMark)))
               = TextsOf(fn.jd_chunks)
        /\ Blocks(Segment(fn.out, Find(fn.out, RulesMark), RulesMark, Find(fn.out, EndMark)))
             = TextsOf(fn.ats_chunks)

C15_Witness ==
    /\ fn.op = "_build_context"
    /\ fn.done
    /\ fn.jd_chunks = <<>>
    /\ Len(fn.resume_chunks) = 2
    /\ fn.resume_chunks[1] = fn.resume_chunks[2]
    /\ Len(fn.ats_chunks) = 2
    /\ ~Contains(fn.out, JobMark)

(***************************************************************************)
(* Claims about the analysis runs.                                         *)
(***************************************************************************)
\* the positions of the collection that hold a chunk of the source
PositionsOf(source) == {p \in 0..(Len(chunks) - 1) : ChunkAt(chunks, p).source = source}

\* C16: after an analyze_with_rag_faiss run on a resume that yields at least one
\* chunk, the retrieval for "ATS scoring rules" has returned the rule chunks the
\* run indexed, so the rules section of the context is not empty
C16_RulesRetrievedByFaissRun ==
    (/\ last.op = "analyze_with_rag_faiss"
     /\ ~last.raised
     /\ PositionsOf("resume") # {}) =>
        /\ last.ats_rule_chunks # <<>>
        /\ Range(last.ats_rule_chunks) = PositionsOf("ats_rules")

\* C17: a _load_index (or the load of __init__) that finds both files of the name
\* and returns False, one of them being unreadable, leaves the collection, the
\* mapping and the vector store as they were
C17_FailedLoadChangesNothing ==
    [][(/\ last'.op = "_load_index"
        /\ ~last'.ret
        /\ BothPresent(last'.name)) =>
            UNCHANGED <<chunks, index_to_chunk_map, faiss_index>>]_vars

(***************************************************************************)
(* Claims about repeated section headers.                                  *)
(***************************************************************************)
\* the label in force at line i: that of the last header before it, summary
\* when there is none
LabelAt(lines, i) ==
    IF \E h \in HeaderPositions(lines) : h < i
    THEN LabelOf(lines[CHOOSE h \in HeaderPositions(lines) :
                           h < i /\ \A g \in HeaderPositions(lines) : g < i => g <= h])
    ELSE "summary"

BodyPositions(lines) == {i \in 1..Len(lines) : ~IsBlank(lines[i]) /\ ~IsHeaderLine(lines[i])}

\* the body lines in force under the label, in input order
RECURSIVE LinesUnder(_, _, _)
LinesUnder(lines, label, i) ==
    IF i > Len(lines) THEN <<>>
    ELSE (IF i \in BodyPositions(lines) /\ LabelAt(lines, i) = label
          THEN <<Strip(lines[i])>> ELSE <<>>) \o LinesUnder(lines, label, i + 1)

\* the lines the output holds under the label
RECURSIVE OutputUnder(_, _, _)
OutputUnder(out, label, e) ==
    IF e > Len(out) THEN <<>>
    ELSE (IF out[e].name = label THEN Split(out[e].text, "\n") ELSE <<>>)
         \o OutputUnder(out, label, e + 1)

SectionLabels == {section_keywords[k].name : k \in 1..Len(section_keywords)} \cup {"summary"}

\* C18: the output of the Section Detector holds, under each label, the non-blank
\* non-header lines whose most recent preceding header has that label (summary
\* before any header), each once and in input order, also when several headers of
\* the text have the same label
C18_EveryLineKeptOnce ==
    (fn.op = "_detect_sections" /\ fn.done) =>
        \A label \in SectionLabels :
            OutputUnder(fn.out, label, 1) = LinesUnder(Split(fn.text, "\n"), label, 1)

\* C19: an analysis run, of either strategy, calls _generate_analysis in with-JD
\* mode exactly when it indexed and queried the job description
C19_ModeAgreesWithIndexing ==
    (last.op \in {"analyze_with_rag", "analyze_with_rag_faiss"} /\ ~last.raised) =>
        (last.has_jd <=> last.jd_given)

(***************************************************************************)
(* Claims about the over-fetch of the filtered FAISS retrieval.            *)
(***************************************************************************)
\* every identifier of the store is mapped to a position of the collection
AllValidlyMapped ==
    \A id \in StoredIds :
        id \in DOMAIN index_to_chunk_map /\ index_to_chunk_map[id] < Len(chunks)

\* the number of chunks of the source in the index the call searches: the entries
\* of the vector store whose chunk has the source or, when the store is absent and
\* the call falls back to brute force, the chunks of the collection that have it
Matching(source) ==
    IF last.fallback THEN Cardinality(PositionsOf(source))
    ELSE Cardinality({id \in StoredIds :
                         ChunkAt(chunks, index_to_chunk_map[id]).source = source})

\* C20: a retrieve_relevant_chunks_faiss call with a source filter on a vector store
\* of at most 2 * top_k vectors, all validly mapped, returns min(top_k, number of
\* indexed chunks of that source) chunks; so a shorter result needs a store of more
\* than 2 * top_k vectors
C20_OverFetchSuffices ==
    (/\ last.op = "retrieve_relevant_chunks_faiss"
     /\ ~last.raised
     /\ FilterGiven(last.source_filter)
     /\ Len(faiss_index.vectors) <= 2 * last.top_k
     /\ AllValidlyMapped) =>
        Len(last.result) = Min(last.top_k, Matching(last.source_filter))

C20_Witness ==
    /\ last.op = "retrieve_relevant_chunks_faiss"
    /\ ~last.fallback
    /\ last.source_filter = "job_description"
    /\ last.top_k = 1
    /\ Len(faiss_index.vectors) = 2
    /\ AllValidlyMapped
    /\ Len(last.candidates) = 2
    /\ Len(last.result) = 1
    /\ last.result[1] # index_to_chunk_map[last.candidates[1]]

(***************************************************************************)
(* Claims about the length of a chunk.                                     *)
(***************************************************************************)
\* the text of the chunk a closed buffer gives: its paragraphs, each followed by a
\* blank line, trimmed
GroupText(group) == Strip(Join(group, "\n\n"))

GroupTexts(groups) == [g \in 1..Len(groups) |-> GroupText(groups[g])]

\* C21: the chunks chunk_text emits are the closed buffers that do not trim to
\* nothing; one whose buffer held more than one paragraph has a text shorter
\* than the size bound, and one whose text is as long as the bound or longer
\* comes from a buffer that held a single paragraph, itself at least as long as
\* the bound
C21_OnlySingleParagraphReachesBound ==
    (fn.op = "chunk_text" /\ fn.done) =>
        LET groups == ChunkGroups(Split(fn.text, "\n\n"), 1, "", <<>>, fn.chunk_size)
        IN /\ TextsOf(fn.out) = NonEmptyOnly(GroupTexts(groups))
           /\ \A g \in 1..Len(groups) :
                 GroupText(groups[g]) # "" =>
                     /\ Len(groups[g]) > 1 => Len(GroupText(groups[g])) < fn.chunk_size
                     /\ Len(GroupText(groups[g])) >= fn.chunk_size =>
                            /\ Len(groups[g]) = 1
                            /\ Len(groups[g][1]) >= fn.chunk_size

\* two paragraphs in one chunk below the bound, then a paragraph longer than the
\* bound in a chunk of its own
C21_Witness ==
    /\ fn.op = "chunk_text" /\ fn.done
    /\ fn.text = "a\n\nb\n\nAAAAAAAAAAAAAAAAAAAAAAAAA"
    /\ fn.chunk_size = 20
    /\ Len(fn.out) = 2
    /\ fn.out[1].text = "a\n\nb"
    /\ Len(fn.out[2].text) = 25
====
